---------------------------- MODULE Spec2Model ----------------------------
(***************************************************************************)
(* PymongoIterator (src/pymongo_iterator.py): an iterator over a MongoDB   *)
(* query that reopens its cursor when the server reports CursorNotFound.   *)
(*                                                                         *)
(* The collection is a sequence of documents in natural (insertion) order. *)
(* A document is an integer: its value is the key a non-natural sort       *)
(* orders by.  A cursor is the client-side handle that find() returns: it  *)
(* is lazy (the query runs on the first next()), and every next() is one   *)
(* round trip to the server (batch size 1), so that a cursor can be lost   *)
(* and the collection can change between any two pulls.                    *)
(*                                                                         *)
(* Spec takes cursor.close() to return normally, as pymongo's does for     *)
(* every server-side failure; SpecClose adds a close() that raises.        *)
(***************************************************************************)
EXTENDS Integers, Sequences, FiniteSets

\* ---- bounds of the model ------------------------------------------------
MaxDoc == 3
MaxFault == 2
MaxMut == 1

Docs == 1..MaxDoc
NoDoc == 0

\* ---- the values the constructor's arguments range over -------------------
\* search_opts, sort_opts and disp_progress: a filter that matches every
\* document or the odd ones, natural or descending order, no progress line
\* or one every second document.
Options ==
  { <<"all", "natural", 0>>, <<"all", "natural", 2>>, <<"odd", "natural", 0>>,
    <<"all", "desc", 0>>, <<"odd", "desc", 2>> }
Skips == {0, 1}
Limits == {0, 2}

VARIABLES
  collection,     \* self.collection: the documents now in the collection, natural order
  search_opts,    \* self.search_opts
  sort_opts,      \* self.sort_opts
  skip,           \* self.skip
  limit,          \* self.limit (normalized)
  disp_progress,  \* self.disp_progress
  i,              \* self.i
  total_docs,     \* self.total_docs
  cursor,         \* self.cursor
  doc,            \* self.doc
  args,           \* the constructor's arguments and the collection it was given
  call,           \* what the last __next__ call did and how it ended
  out,            \* the documents __next__ has returned, in order
  len_ret,        \* the value the last __len__ call returned (-1: never called)
  find_calls,     \* number of collection.find() calls so far
  next_called,    \* whether next() was ever called on a cursor
  orphans,        \* number of cursors replaced while the server still held them
  faults,         \* number of times the collaborator has failed (cursors lost, errors)
  muts            \* number of insertions and deletions since construction

vars == <<collection, search_opts, sort_opts, skip, limit, disp_progress, i,
          total_docs, cursor, doc, args, call, out, len_ret, find_calls,
          next_called, orphans, faults, muts>>

\* The fields of the iterator object itself.
self == <<search_opts, sort_opts, skip, limit, disp_progress, i, total_docs,
          cursor, doc>>

\* ---- sequences -----------------------------------------------------------
Min(a, b) == IF a <= b THEN a ELSE b
Max(a, b) == IF a >= b THEN a ELSE b

Drop(s, n) == IF n >= Len(s) THEN <<>> ELSE SubSeq(s, n + 1, Len(s))
Take(s, n) == IF n >= Len(s) THEN s ELSE SubSeq(s, 1, n)
Remove(s, d) == SelectSeq(s, LAMBDA x : x # d)
Range(s) == {s[k] : k \in 1..Len(s)}

RECURSIVE Ascending(_)
Ascending(S) ==
  IF S = {} THEN <<>>
  ELSE LET m == CHOOSE x \in S : \A y \in S : x <= y
       IN <<m>> \o Ascending(S \ {m})

RECURSIVE Descending(_)
Descending(S) ==
  IF S = {} THEN <<>>
  ELSE LET m == CHOOSE x \in S : \A y \in S : x >= y
       IN <<m>> \o Descending(S \ {m})

\* ---- integers beyond TLC's 32-bit range ----------------------------------
\* Python's integers are unbounded and the iterator's limit can be 2**31,
\* one more than the largest integer TLC holds.  A limit is therefore kept
\* as h * 2**31 + l with l of small magnitude, written Big(h, l); the
\* order on such numbers is the lexicographic one.
Big(h, l) == [hi |-> h, lo |-> l]
OfInt(n) == Big(0, n)
BigAdd(a, n) == [a EXCEPT !.lo = a.lo + n]
BigSub(a, n) == [a EXCEPT !.lo = a.lo - n]
BigLeq(a, b) == a.hi < b.hi \/ (a.hi = b.hi /\ a.lo <= b.lo)
BigIsZero(a) == a.hi = 0 /\ a.lo = 0

\* ---- the database collaborator -------------------------------------------
\* Whether document d matches the query filter f ({} matches every document).
Matches(f, d) == f = "all" \/ (f = "odd" /\ d % 2 = 1)

Filter(c, f) == SelectSeq(c, LAMBDA d : Matches(f, d))

\* Cursor.sort(): "none" is a cursor that sort() was never called on, which
\* the server answers in natural order, like [("$natural", 1)].
Sorted(c, s) ==
  CASE s = "asc" -> Ascending(Range(c))
    [] s = "desc" -> Descending(Range(c))
    [] OTHER -> c

\* Cursor.limit(n): 0 is no limit.
Limited(c, n) ==
  IF BigIsZero(n) \/ BigLeq(OfInt(Len(c)), n) THEN c ELSE Take(c, n.lo)

\* A count that forgets the skip.
count_documents_noskip(c, f, sk, lm) == Len(Limited(Filter(c, f), lm))

\* collection.count_documents(filter, skip=, limit=): $match, $skip, $limit, count.
count_documents(c, f, sk, lm) == Len(Limited(Drop(Filter(c, f), sk), lm))

\* collection.find(filter, no_cursor_timeout=True).sort(s).skip(sk).limit(lm):
\* a cursor that has not run its query yet.
find(f, s, sk, lm) ==
  [status |-> "new", filter |-> f, sort |-> s, skip |-> sk, limit |-> lm,
   rest |-> <<>>, given |-> 0]

\* The cursor once its query has run on collection c: rest holds the
\* documents after the skipped ones, given counts those it has delivered.
Started(cur, c) ==
  IF cur.status = "new"
  THEN [cur EXCEPT !.status = "alive",
                   !.rest = Drop(Sorted(Filter(c, cur.filter), cur.sort), cur.skip)]
  ELSE cur

\* next(cursor) with the server's answer `fault` to this pull: "none", "lost"
\* (the server no longer knows the cursor) or "other" (any other error).
\* The result is what next() raises or returns, and the cursor afterwards.
PullNext(cur, c, fault) ==
  LET s == Started(cur, c) IN
  CASE cur.status = "lost" \/ (fault = "lost" /\ cur.status # "closed") ->
         [kind |-> "CursorNotFound", doc |-> NoDoc,
          cursor |-> [cur EXCEPT !.status = "lost"]]
    [] fault = "other" /\ cur.status # "closed" ->
         [kind |-> "OtherError", doc |-> NoDoc, cursor |-> cur]
    [] OTHER ->
         IF s.status = "closed" \/ s.rest = <<>>
            \/ (~BigIsZero(s.limit) /\ BigLeq(s.limit, OfInt(s.given)))
         THEN [kind |-> "StopIteration", doc |-> NoDoc, cursor |-> s]
         ELSE [kind |-> "doc", doc |-> Head(s.rest),
               cursor |-> [s EXCEPT !.rest = Tail(s.rest), !.given = s.given + 1]]


\* A live cursor and an insertion of d into the collection: a cursor in
\* natural order may meet d at the end of its scan, a sorted one never does.
AfterInsert(cur, d, seen) ==
  IF seen /\ cur.status = "alive" /\ cur.sort \in {"natural", "none"}
     /\ Matches(cur.filter, d)
  THEN [cur EXCEPT !.rest = Append(cur.rest, d)]
  ELSE cur

\* A live cursor and the deletion of d: it no longer meets d.
AfterDelete(cur, d) ==
  IF cur.status = "alive" THEN [cur EXCEPT !.rest = Remove(cur.rest, d)] ELSE cur

\* ---- PymongoIterator -----------------------------------------------------
\* 2**31
NoLimit == Big(1, 0)

\* A constructor that keeps the limit as given.
normalized_limit_raw(lm) == OfInt(lm)

\* __init__: the limit the iterator keeps.
normalized_limit(lm) == IF lm = 0 THEN NoLimit ELSE OfInt(lm)

\* __init__: the cursor the constructor opens.
initial_cursor(f, s, sk, lm) == find(f, s, sk, lm)

\* What a call of __next__ did: how it ended (kind: a document, end of
\* sequence, an error), the document returned, the exception raised, whether
\* it went through __reinitialize, the numbers of next(), find() and close()
\* calls it made, whether it printed the progress line, self.i on entry, and
\* how the pull on self.cursor ended (pull: "" when there was none).
NoCall ==
  [kind |-> "none", doc |-> NoDoc, err |-> "", reinit |-> FALSE, pulls |-> 0,
   finds |-> 0, closes |-> 0, printed |-> FALSE, before |-> 0, pull |-> ""]

__init__(c, f, s, sk, lm, dp) ==
  /\ collection = c
  /\ search_opts = f
  /\ sort_opts = s
  /\ skip = sk
  /\ disp_progress = dp
  /\ limit = normalized_limit(lm)
  /\ i = 0
  /\ total_docs = count_documents(c, f, sk, normalized_limit(lm))
  /\ cursor = initial_cursor(f, s, sk, normalized_limit(lm))
  /\ doc = NoDoc
  /\ args = [collection |-> c, limit |-> lm]
  /\ call = NoCall
  /\ out = <<>>
  /\ len_ret = -1
  /\ find_calls = 1
  /\ next_called = FALSE
  /\ orphans = 0
  /\ faults = 0
  /\ muts = 0

\* The order in which the documents were inserted before construction: the
\* even ones first, so that natural order is neither of the sorted orders.
InsertionOrder ==
  Ascending({d \in Docs : d % 2 = 0}) \o Ascending({d \in Docs : d % 2 = 1})

\* The collections a constructor may be given: any of the documents, each once.
Collections ==
  {SelectSeq(InsertionOrder, LAMBDA d : d \in S) : S \in SUBSET Docs}

Init ==
  \E c \in Collections, o \in Options, sk \in Skips, lm \in Limits :
    __init__(c, o[1], o[2], sk, lm, o[3])

\* A replacement limit that forgets the documents already returned.
intermediate_limit_full == limit

\* __reinitialize: the limit of the replacement cursor.
intermediate_limit == IF ~BigIsZero(limit) THEN BigSub(limit, i) ELSE OfInt(0)

\* A replacement skip that forgets the constructor's skip.
intermediate_skip_unshifted == i

\* __reinitialize: the skip of the replacement cursor.
intermediate_skip == i + skip

\* __reinitialize: the replacement cursor (sort() is not called on it).
replacement_cursor == find(search_opts, "none", intermediate_skip, intermediate_limit)

\* A recovery that counts its document twice, and one that does not count it.
reinitialize_count_twice == i + 2
reinitialize_count_none == i

\* __reinitialize: self.i after the recovery pull returned a document.
reinitialize_count == i + 1

\* A recovery that opens a second replacement cursor when its pull finds the
\* first one lost.
__reinitialize_retry(fault) ==
  LET r == PullNext(replacement_cursor, collection, fault)
      again == PullNext(replacement_cursor, collection, "none")
  IN IF r.kind = "CursorNotFound"
     THEN [kind |-> again.kind, doc |-> again.doc, cursor |-> again.cursor,
           i |-> IF again.kind = "doc" THEN i + 1 ELSE i,
           finds |-> 2, pulls |-> 2]
     ELSE [kind |-> r.kind, doc |-> r.doc, cursor |-> r.cursor,
           i |-> IF r.kind = "doc" THEN i + 1 ELSE i,
           finds |-> 1, pulls |-> 1]

\* A recovery that counts its document before it has pulled it.
__reinitialize_counts_first(fault) ==
  LET r == PullNext(replacement_cursor, collection, fault) IN
  [kind |-> r.kind, doc |-> r.doc, cursor |-> r.cursor, i |-> i + 1,
   finds |-> 1, pulls |-> 1]

\* __reinitialize with the server's answer `fault` to its one pull: how the
\* call ends (a document, or the exception next() raised) and self afterwards.
__reinitialize(fault) ==
  LET r == PullNext(replacement_cursor, collection, fault) IN
  [kind |-> r.kind, doc |-> r.doc, cursor |-> r.cursor,
   i |-> IF r.kind = "doc" THEN reinitialize_count ELSE i,
   finds |-> 1, pulls |-> 1]

\* A pull that counts its document twice.
next_count_twice == i + 2

\* __next__: self.i after the pull on self.cursor returned a document.
next_count == i + 1

\* A progress test on the count before the increment.
prints_progress_before(n) == disp_progress # 0 /\ (n - 1) % disp_progress = 0

\* __next__: whether it prints the progress line, self.i being n.
prints_progress(n) == disp_progress # 0 /\ n % disp_progress = 0

\* An end test that lets one more pull through.
exhausted_strict == i > total_docs

\* __next__: the test that ends the iteration.
exhausted == i >= total_docs

\* A handler that recovers from every error of the pull.
recovers_any(kind) == kind \in {"CursorNotFound", "OtherError"}

\* __next__: the exceptions of the pull that it handles (except CursorNotFound).
recovers(kind) == kind = "CursorNotFound"

\* How an exception leaving __next__ reads to the caller: StopIteration is the
\* iterator protocol's end-of-sequence, whoever raised it.
Raised(kind) == IF kind = "StopIteration" THEN "eos" ELSE "err"

\* The record of a call that has just been entered.
Entered == [NoCall EXCEPT !.before = i]

\* __next__ with the collaborator's answers: f1 to the pull on self.cursor, f2
\* to the recovery pull, cf whether cursor.close() raises.  The result holds
\* self.i, self.cursor, self.doc afterwards and the record of the call.
next_result(f1, f2, cf) ==
  IF exhausted
  THEN IF cf
       THEN [i |-> i, cursor |-> cursor, doc |-> doc,
             call |-> [Entered EXCEPT !.kind = "err", !.err = "CloseError",
                                     !.closes = 1]]
       ELSE [i |-> i, cursor |-> [cursor EXCEPT !.status = "closed"], doc |-> doc,
             call |-> [Entered EXCEPT !.kind = "eos", !.closes = 1]]
  ELSE LET r == PullNext(cursor, collection, f1) IN
       CASE r.kind = "doc" ->
              [i |-> next_count, cursor |-> r.cursor, doc |-> r.doc,
               call |-> [Entered EXCEPT !.kind = "doc", !.doc = r.doc, !.pulls = 1,
                                       !.pull = "doc",
                                       !.printed = prints_progress(next_count)]]
         [] recovers(r.kind) ->
              LET q == __reinitialize(f2) IN
              [i |-> q.i, cursor |-> q.cursor, doc |-> doc,
               call |-> [Entered EXCEPT
                           !.kind = IF q.kind = "doc" THEN "doc" ELSE Raised(q.kind),
                           !.doc = q.doc,
                           !.err = IF q.kind = "doc" THEN "" ELSE q.kind,
                           !.reinit = TRUE, !.pulls = 1 + q.pulls,
                           !.finds = q.finds, !.pull = r.kind]]
         [] OTHER ->
              [i |-> i, cursor |-> r.cursor, doc |-> doc,
               call |-> [Entered EXCEPT !.kind = Raised(r.kind), !.err = r.kind,
                                       !.pulls = 1, !.pull = r.kind]]

Faults == {"none", "lost", "other"}

\* The cursors a call finds lost for the first time, and the other errors it meets.
NewlyLost(r) ==
  (IF r.call.reinit /\ cursor.status # "lost" THEN 1 ELSE 0)
  + (IF r.call.reinit /\ r.call.err = "CursorNotFound" THEN 1 ELSE 0)

NewErrors(r) == IF r.call.err \in {"OtherError", "CloseError"} THEN 1 ELSE 0

\* The cursors a call leaves behind without the server having dropped them:
\* self.cursor when it is replaced after an exception other than
\* CursorNotFound.
Orphaned(r) ==
  IF r.call.finds > 0 /\ r.call.pull # "CursorNotFound" THEN 1 ELSE 0

\* One call of __next__ that ends as r says.
Call(r) ==
  /\ faults + NewlyLost(r) + NewErrors(r) <= MaxFault
  /\ i' = r.i
  /\ cursor' = r.cursor
  /\ doc' = r.doc
  /\ call' = r.call
  /\ out' = IF r.call.kind = "doc" THEN Append(out, r.call.doc) ELSE out
  /\ find_calls' = find_calls + r.call.finds
  /\ next_called' = (next_called \/ r.call.pulls > 0)
  /\ orphans' = orphans + Orphaned(r)
  /\ faults' = faults + NewlyLost(r) + NewErrors(r)
  /\ UNCHANGED <<collection, search_opts, sort_opts, skip, limit,
                 disp_progress, total_docs, args, len_ret, muts>>

\* __next__, cursor.close() returning normally.
__next__ ==
  \E f1 \in Faults, f2 \in Faults :
    \E r \in {next_result(f1, f2, FALSE)} :
      /\ f1 # "none" => ~exhausted
      /\ f2 # "none" => r.call.reinit
      /\ Call(r)

\* __next__, cursor.close() raising.
next_close_raises ==
  /\ exhausted
  /\ Call(next_result("none", "none", TRUE))

\* A length that counts the collection again.
len_result_recount == count_documents(collection, search_opts, skip, limit)

\* The value __len__ returns.
len_result == total_docs

__len__ ==
  /\ len_ret' = len_result
  /\ UNCHANGED <<collection, search_opts, sort_opts, skip, limit, disp_progress,
                 i, total_docs, cursor, doc, args, call, out, find_calls,
                 next_called, orphans, faults, muts>>

\* ---- the rest of the world ------------------------------------------------
\* Another client inserts document d.
Insert ==
  \E d \in Docs \ Range(collection), seen \in BOOLEAN :
    /\ muts < MaxMut
    /\ collection' = Append(collection, d)
    /\ cursor' = AfterInsert(cursor, d, seen)
    /\ muts' = muts + 1
    /\ UNCHANGED <<search_opts, sort_opts, skip, limit, disp_progress, i,
                   total_docs, doc, args, call, out, len_ret, find_calls,
                   next_called, orphans, faults>>

\* Another client deletes document d.
Delete ==
  \E d \in Range(collection) :
    /\ muts < MaxMut
    /\ collection' = Remove(collection, d)
    /\ cursor' = AfterDelete(cursor, d)
    /\ muts' = muts + 1
    /\ UNCHANGED <<search_opts, sort_opts, skip, limit, disp_progress, i,
                   total_docs, doc, args, call, out, len_ret, find_calls,
                   next_called, orphans, faults>>

Next == __next__ \/ __len__ \/ Insert \/ Delete

Spec == Init /\ [][Next]_vars

\* The same with a cursor.close() that may raise.
SpecClose == Init /\ [][Next \/ next_close_raises]_vars


\* ---- what an uninterrupted iteration would deliver -------------------------
\* The documents that match the filter when the iterator is constructed.
MatchingAtConstruction == Filter(args.collection, search_opts)

\* The documents one cursor with the constructor's sort, skip and limit
\* delivers from the collection as it was at construction.
Uninterrupted ==
  Limited(Drop(Sorted(MatchingAtConstruction, sort_opts), skip), limit)

\* ---- claims ----------------------------------------------------------------

\* C1: with the collection unchanged, whatever cursors were lost and
\* recovered, an end-of-sequence signal comes only after exactly total_docs
\* documents have been returned, and a call made once total_docs documents
\* have been returned returns no document and no error: it signals
\* end-of-sequence.
C1_YieldsTotalThenStops ==
  /\ (muts = 0 /\ call.kind = "eos") => Len(out) = total_docs
  /\ call.kind = "doc" => Len(out) <= total_docs
  /\ call.kind = "err" => Len(out) < total_docs

C1_Witness ==
  /\ muts = 0 /\ call.kind = "eos" /\ find_calls = 3
  /\ total_docs = 3 /\ Len(out) = 3

\* C2: in natural order and with the collection unchanged, the documents
\* returned so far are the first documents of the uninterrupted iteration, in
\* its order, however many cursors were lost in between, and at the
\* end-of-sequence signal they are all of them.
C2_ResumedEqualsUninterrupted ==
  (sort_opts = "natural" /\ muts = 0) =>
    /\ out = Take(Uninterrupted, Len(out))
    /\ call.kind = "eos" => out = Uninterrupted

C2_Witness ==
  /\ sort_opts = "natural" /\ muts = 0 /\ skip = 1 /\ find_calls = 3
  /\ call.reinit /\ call.kind = "doc" /\ Len(out) = total_docs /\ total_docs = 2

\* C3: in every sort order (collection unchanged), each document returned,
\* also one returned by the recovery path, is the next one of the
\* uninterrupted iteration in that order.
C3_NextInSortOrder ==
  muts = 0 => out = Take(Uninterrupted, Len(out))

\* C4: self.i moves only by +1 and only in a call that returns a document:
\* it is self.i on entry plus one after a call that returned a document, on
\* the normal path and on the recovery path alike, self.i on entry after a
\* call that signalled end-of-sequence or raised, and always the number of
\* documents returned.
C4_CountsReturnedDocuments ==
  /\ i = Len(out)
  /\ call.kind = "none" => i = 0
  /\ call.kind = "doc" => i = call.before + 1
  /\ call.kind \in {"eos", "err"} => i = call.before

C4_Witness ==
  /\ call.reinit /\ call.kind = "doc" /\ call.before = 1 /\ i = 2

\* C5: 0 <= self.i <= self.total_docs in every state, whatever was lost,
\* raised, inserted or deleted.
C5_CountWithinTotal == 0 <= i /\ i <= total_docs

C5_Witness ==
  /\ i = total_docs /\ total_docs >= 2 /\ faults > 0 /\ call.kind = "doc"
  /\ Len(collection) > Len(args.collection) /\ cursor.rest # <<>>

\* C6: end-of-sequence is signalled only when self.i = self.total_docs, also
\* after deletions.
C6_StopsOnlyAtTotal == call.kind = "eos" => i = total_docs

\* C7: __len__ returns the total computed at construction in every state,
\* self.total_docs never changes, and the call changes nothing of the
\* iterator or the collection.
C7_LenIsTotalAtConstruction ==
  /\ [](len_ret # -1 =>
          len_ret = count_documents(args.collection, search_opts, skip, limit))
  /\ [](total_docs = count_documents(args.collection, search_opts, skip, limit))
  /\ [][__len__ => UNCHANGED <<self, collection>>]_vars

C7_Witness ==
  /\ len_ret = total_docs /\ find_calls > 1 /\ call.kind = "eos"
  /\ count_documents(collection, search_opts, skip, limit) # total_docs

C9_NoFindEver ==
  (MatchingAtConstruction = <<>> /\ call.kind = "eos") =>
    /\ total_docs = 0
    /\ find_calls = 0
    /\ ~next_called

\* C9 amended: when no document matches, total_docs is 0, every call signals
\* end-of-sequence without a find() or a next(), and the one find() ever
\* made is the constructor's.
C9_NoFindAfterConstruction ==
  MatchingAtConstruction = <<>> =>
    /\ total_docs = 0
    /\ call.kind \in {"none", "eos"}
    /\ call.pulls = 0 /\ call.finds = 0
    /\ find_calls = 1
    /\ ~next_called

C9_Witness ==
  /\ MatchingAtConstruction = <<>> /\ args.collection # <<>>
  /\ call.kind = "eos" /\ cursor.status = "closed"

\* C10: a replacement cursor is opened with skip = self.skip + e and limit =
\* self.limit - e, e being self.i when the cursor was found lost, so that its
\* skip + limit is self.skip + self.limit.
C10_ReplacementSkipLimit ==
  call.reinit =>
    /\ cursor.skip = skip + call.before
    /\ cursor.limit = BigSub(limit, call.before)
    /\ BigAdd(cursor.limit, cursor.skip) = BigAdd(limit, skip)

C10_Witness ==
  /\ call.reinit /\ call.before = 1 /\ skip = 1 /\ args.limit = 2
  /\ cursor.skip = 2 /\ cursor.limit = OfInt(1)


\* C11: a pull on self.cursor that raises an error other than CursorNotFound
\* ends the call with that error: no replacement cursor, no second pull, and
\* self.i, self.total_docs and self.cursor as they were.
C11_OtherErrorPropagates ==
  [][(faults' # faults /\ call'.pull = "OtherError") =>
       /\ call'.kind = "err" /\ call'.err = "OtherError"
       /\ ~call'.reinit /\ call'.pulls = 1 /\ call'.finds = 0
       /\ find_calls' = find_calls
       /\ i' = i /\ total_docs' = total_docs /\ cursor' = cursor]_vars

C11_Witness ==
  /\ call.pull = "OtherError" /\ call.kind = "err" /\ call.before = 1
  /\ find_calls = 2 /\ cursor.status = "alive"

\* C12: a call opens at most one replacement cursor and pulls from it once;
\* when that pull raises CursorNotFound or another error, the error reaches
\* the caller and self.i is not incremented.
C12_OneRecoveryPerCall ==
  /\ call.finds <= 1
  /\ call.reinit => (call.finds = 1 /\ call.pulls = 2)
  /\ (call.reinit /\ call.err \in {"CursorNotFound", "OtherError"}) =>
       (call.kind = "err" /\ i = call.before /\ Len(out) = call.before)

C12_Witness ==
  /\ call.reinit /\ call.err = "CursorNotFound" /\ call.kind = "err"
  /\ cursor.status = "lost" /\ call.before = 1 /\ find_calls = 2

\* C13: a call that closes the cursor signals end-of-sequence whether or not
\* close() raises.
C13_CloseErrorIgnored == call.closes = 1 => call.kind = "eos"

\* C14: the iterator holds at most one live cursor: a replacement is opened
\* only in a call whose pull on self.cursor raised CursorNotFound, and it is
\* self.cursor afterwards.
C14_OneLiveCursor ==
  /\ orphans + (IF cursor.status \in {"new", "alive"} THEN 1 ELSE 0) <= 1
  /\ call.finds > 0 =>
       /\ call.pull = "CursorNotFound"
       /\ cursor.sort = "none" /\ cursor.skip = skip + call.before

C14_Witness ==
  /\ find_calls = 3 /\ call.reinit /\ call.kind = "doc"
  /\ cursor.status = "alive" /\ orphans = 0

\* C15: self.limit and the limit of every replacement cursor are at most
\* 2**31 - 1.
C15_LimitFitsInt32 ==
  /\ BigLeq(limit, Big(1, -1))
  /\ call.reinit => BigLeq(cursor.limit, Big(1, -1))

\* C16: close() is called by exactly the calls that find self.i >=
\* self.total_docs, on self.cursor, before they signal end-of-sequence; a call
\* that pulls (and so one that returns a document, raises a pull error or
\* replaces a lost cursor) calls no close().
C16_CloseOnlyWhenExhausted ==
  /\ call.kind # "none" => (call.closes = 1 <=> call.before >= total_docs)
  /\ call.closes = 1 =>
       (call.kind = "eos" /\ call.pulls = 0 /\ cursor.status = "closed")
  /\ (call.pulls > 0 \/ call.kind = "doc") => call.closes = 0
  /\ cursor.status = "closed" => i >= total_docs

C16_Witness ==
  /\ call.closes = 1 /\ call.kind = "eos" /\ cursor.status = "closed"
  /\ find_calls = 2 /\ total_docs = 2 /\ muts = 0

\* C17: a call that returns a document on the normal path prints the progress
\* line exactly when disp_progress > 0 and the new self.i is a multiple of it;
\* a call on the recovery path, or with disp_progress = 0, or one that returns
\* no document, prints none.
C17_ProgressLine ==
  /\ (call.kind = "doc" /\ ~call.reinit) =>
       (call.printed <=> (disp_progress > 0 /\ i % disp_progress = 0))
  /\ call.reinit => ~call.printed
  /\ disp_progress = 0 => ~call.printed
  /\ call.kind # "doc" => ~call.printed

C17_Witness ==
  /\ call.reinit /\ call.kind = "doc" /\ disp_progress = 2 /\ i = 2
  /\ ~call.printed

\* C18: once a call has signalled end-of-sequence with self.i =
\* self.total_docs, every step keeps it so: a later call signals
\* end-of-sequence again, pulls nothing, opens nothing, returns nothing and
\* leaves self.i and self.total_docs alone.
C18_TerminalIsAbsorbing ==
  [][(call.kind = "eos" /\ i = total_docs) =>
       /\ call'.kind = "eos" /\ call'.pulls = 0 /\ call'.finds = 0
       /\ call'.doc = NoDoc
       /\ i' = i /\ total_docs' = total_docs
       /\ out' = out /\ find_calls' = find_calls]_vars

C18_Witness ==
  /\ call.kind = "eos" /\ i = total_docs /\ total_docs = 2
  /\ muts = 1 /\ Len(collection) > Len(args.collection) /\ len_ret = 2

\* C19: self.limit is never 0, and a replacement cursor is opened only with
\* self.i < self.total_docs <= self.limit, so its limit is at least 1.
C19_ReplacementLimitPositive ==
  /\ ~BigIsZero(limit)
  /\ call.reinit =>
       /\ call.before < total_docs
       /\ BigLeq(OfInt(total_docs), limit)
       /\ BigLeq(OfInt(1), cursor.limit)

C19_Witness ==
  /\ call.reinit /\ args.limit = 2 /\ skip = 0 /\ call.before = 1
  /\ cursor.limit = OfInt(1)

\* C20: after a call whose recovery pull raised CursorNotFound, the position
\* is kept: a further call goes through __reinitialize again with the same
\* skip, self.skip + self.i, and the document it returns is (natural order,
\* collection unchanged) the next one of the uninterrupted iteration.
C20_FailedRecoveryKeepsPosition ==
  [][(call.reinit /\ call.err = "CursorNotFound") =>
       /\ call'.reinit
       /\ cursor'.skip = cursor.skip /\ cursor'.skip = skip + i
       /\ (call'.kind = "doc" /\ sort_opts = "natural" /\ muts' = 0) =>
            (call'.doc = Uninterrupted[i + 1] /\ out' = Append(out, call'.doc))]_vars

C20_Witness ==
  /\ call.reinit /\ call.kind = "doc" /\ find_calls = 3 /\ faults = 2
  /\ Len(out) = 1 /\ muts = 0 /\ sort_opts = "natural" /\ skip = 1
  /\ out = Take(Uninterrupted, 1)

=============================================================================
